---- MODULE Spec2Model ----
(***************************************************************************)
(* Receipt certification: canonical hashing and ledger-memo verification   *)
(* (hashing.py), rule-based fraud scoring and certified comparison         *)
(* (comparing_receipts.py), and the arithmetic step of the integration     *)
(* flow (integration.py).                                                  *)
(*                                                                         *)
(* Conventions of the model                                                *)
(*  - a text is a sequence of one-character tokens; "SIGMA", "sigma" and   *)
(*    "fsigma" stand for the Greek capital, small and final small sigma;   *)
(*  - a field value is a record [k, s, v]: k is "absent" (key not in the   *)
(*    dict), "null" (None), "str" (text s) or "num" (number v);            *)
(*  - amounts are exact decimals counted in thousandths (5.75 is 5750);    *)
(*    binary floating-point rounding noise is not represented;             *)
(*  - SHA-256 is collision-free on the inputs considered: a digest is      *)
(*    represented by the canonical record it was computed from.            *)
(***************************************************************************)
EXTENDS Integers, Sequences, FiniteSets, TLC

VARIABLES receipt, memo, original, anchored, result,
          clock, assessment, previous, arith,
          SAMPLE_RECEIPTS, user_input, receipt_id, comparison

vars == <<receipt, memo, original, anchored, result,
          clock, assessment, previous, arith,
          SAMPLE_RECEIPTS, user_input, receipt_id, comparison>>

(***************************************************************************)
(* Field values                                                            *)
(***************************************************************************)
Absent == [k |-> "absent", s |-> <<>>, v |-> 0]

Null == [k |-> "null", s |-> <<>>, v |-> 0]

Txt(t) == [k |-> "str", s |-> t, v |-> 0]

Num(n) == [k |-> "num", s |-> <<>>, v |-> n]

\* dict.get(key, default): the default replaces an absent key only; a key
\* present with None yields None.
Get(data, key, default) ==
  IF data[key].k = "absent" THEN default ELSE data[key]

(***************************************************************************)
(* Text primitives: str(), str.lower(), str.upper(), str.strip()           *)
(***************************************************************************)
CasePairs ==
  { <<"A", "a">>, <<"B", "b">>, <<"C", "c">>, <<"D", "d">>, <<"E", "e">>,
    <<"N", "n">>, <<"O", "o">>, <<"S", "s">>, <<"U", "u">>,
    <<"SIGMA", "sigma">> }

UpperLetters == { p[1] : p \in CasePairs }

LowerLetters == { p[2] : p \in CasePairs } \cup {"fsigma"}

IsCased(ch) == ch \in UpperLetters \cup LowerLetters

LowerChar(ch) ==
  IF ch \in UpperLetters
  THEN (CHOOSE p \in CasePairs : p[1] = ch)[2]
  ELSE ch

UpperChar(ch) ==
  IF ch = "fsigma" THEN "SIGMA"
  ELSE IF ch \in LowerLetters
  THEN (CHOOSE p \in CasePairs : p[2] = ch)[1]
  ELSE ch

\* Python's str.lower() applies the Unicode Final_Sigma rule: a capital sigma
\* preceded by a cased letter and not followed by one lowers to the final
\* form; every other character lowers on its own.
FinalSigmaAt(t, i) ==
  /\ t[i] = "SIGMA"
  /\ i > 1 /\ IsCased(t[i - 1])
  /\ (i = Len(t) \/ ~IsCased(t[i + 1]))

Lower(t) ==
  [i \in 1..Len(t) |-> IF FinalSigmaAt(t, i) THEN "fsigma" ELSE LowerChar(t[i])]

Upper(t) == [i \in 1..Len(t) |-> UpperChar(t[i])]

RECURSIVE LStrip(_)
LStrip(t) ==
  IF t # <<>> /\ Head(t) = " " THEN LStrip(Tail(t)) ELSE t

RECURSIVE RStrip(_)
RStrip(t) ==
  IF t # <<>> /\ t[Len(t)] = " " THEN RStrip(SubSeq(t, 1, Len(t) - 1)) ELSE t

Strip(t) == RStrip(LStrip(t))

\* str(x) for the value kinds a text field takes: a text is itself, None is
\* the four characters "None".
Str(x) == IF x.k = "null" THEN <<"N", "o", "n", "e">> ELSE x.s

(***************************************************************************)
(* Numbers: float() and "{:.2f}".format()                                  *)
(***************************************************************************)
Digits == {"0", "1", "2", "3", "4", "5", "6", "7", "8", "9"}

DigitVal(ch) ==
  CASE ch = "0" -> 0 [] ch = "1" -> 1 [] ch = "2" -> 2 [] ch = "3" -> 3
    [] ch = "4" -> 4 [] ch = "5" -> 5 [] ch = "6" -> 6 [] ch = "7" -> 7
    [] ch = "8" -> 8 [] ch = "9" -> 9

RECURSIVE DigitsToNat(_)
DigitsToNat(t) ==
  IF t = <<>> THEN 0
  ELSE 10 * DigitsToNat(SubSeq(t, 1, Len(t) - 1)) + DigitVal(t[Len(t)])

AllDigits(t) == \A i \in 1..Len(t) : t[i] \in Digits

\* The thousandths denoted by the digits after the decimal point (at most
\* three digits are used by the inputs of the model).
FracThousandths(t) ==
  CASE Len(t) = 0 -> 0
    [] Len(t) = 1 -> 100 * DigitsToNat(t)
    [] Len(t) = 2 -> 10 * DigitsToNat(t)
    [] OTHER -> DigitsToNat(SubSeq(t, 1, 3))

\* float(text): surrounding whitespace is ignored; digits with at most one
\* decimal point and at least one digit parse, anything else is a ValueError.
ParseFloat(t) ==
  LET u == Strip(t)
      dots == { i \in 1..Len(u) : u[i] = "." }
      cut == IF dots = {} THEN Len(u) + 1 ELSE CHOOSE i \in dots : TRUE
      whole == SubSeq(u, 1, cut - 1)
      frac == SubSeq(u, cut + 1, Len(u))
  IN IF /\ Cardinality(dots) <= 1
        /\ AllDigits(whole) /\ AllDigits(frac)
        /\ Len(whole) + Len(frac) > 0
     THEN [ok |-> TRUE, v |-> 1000 * DigitsToNat(whole) + FracThousandths(frac)]
     ELSE [ok |-> FALSE, v |-> 0]

\* float(x): a number converts, a text is parsed (ValueError when it is not
\* numeric), None raises TypeError.
Float(x) ==
  CASE x.k = "num" -> [ok |-> TRUE, v |-> x.v]
    [] x.k = "str" -> ParseFloat(x.s)
    [] OTHER -> [ok |-> FALSE, v |-> 0]

Abs(n) == IF n < 0 THEN -n ELSE n

\* "{:.2f}".format(f): the sign and the amount rounded to hundredths (the
\* inputs of the model hold no exact half-cent, so the rounding mode at ties
\* plays no part).
Format1(n) == [neg |-> n < 0, cents |-> 10 * ((Abs(n) + 50) \div 100)]

Format2(n) == [neg |-> n < 0, cents |-> (Abs(n) + 5) \div 10]

(***************************************************************************)
(* hashing.py: compute_canonical_hash and verify_receipt                   *)
(***************************************************************************)
ZeroCanon ==
  [currency |-> <<>>, date |-> <<>>, merchant |-> <<>>,
   subtotal |-> Format2(0), tax |-> Format2(0), total |-> Format2(0)]

\* Python's None as the value of a hash.
NoHash == [ok |-> FALSE, canon |-> ZeroCanon]

\* hashlib.sha256(json.dumps(canonical, sort_keys=True, ...)).hexdigest():
\* the digest of the six canonical fields, and of nothing else.
Sha256(canonical) == [ok |-> TRUE, canon |-> canonical]

DefaultMerchant == Txt(<<>>)

DefaultDate == Txt(<<"n", "u", "l", "l">>)

DefaultCurrency == Txt(<<"C", "A", "D">>)

DefaultAmount == Num(0)

CanonicalMerchant(data) == Strip(Lower(Str(Get(data, "merchant", DefaultMerchant))))

CanonicalDate(data) == Strip(Str(Get(data, "date", DefaultDate)))

CanonicalCurrency(data) == Strip(Upper(Str(Get(data, "currency", DefaultCurrency))))

CanonicalAmount(data, key) == Format2(Float(Get(data, key, DefaultAmount)).v)

AmountKeys == {"subtotal", "tax", "total"}

\* float() raised ValueError or TypeError on one of the amounts.
HashingRaises(data) ==
  \E key \in AmountKeys : ~Float(Get(data, key, DefaultAmount)).ok

compute_canonical_hash(data) ==
  IF HashingRaises(data)
  THEN NoHash
  ELSE Sha256([merchant |-> CanonicalMerchant(data),
               date |-> CanonicalDate(data),
               currency |-> CanonicalCurrency(data),
               subtotal |-> CanonicalAmount(data, "subtotal"),
               tax |-> CanonicalAmount(data, "tax"),
               total |-> CanonicalAmount(data, "total")])

\* A memo is held as the sequence of its ':'-separated segments, which is
\* what str.split(':') makes of it. A segment is a literal text or the 64
\* hexadecimal characters of a digest.
Lit(name) == [hex |-> FALSE, lit |-> name, canon |-> ZeroCanon]

Hex(h) == [hex |-> TRUE, lit |-> "", canon |-> h.canon]

Prefix == Lit("DEEPFAKERECEIPT")

\* f"{receipt_hash}": a digest prints as its hexadecimal text, None prints as
\* the text "None".
FormatHash(h) == IF h.ok THEN Hex(h) ELSE Lit("None")

\* f"DEEPFAKERECEIPT:{receipt_hash}"
BuildMemo(h) == <<Prefix, FormatHash(h)>>

\* ":" in solana_memo_string
HasColon(m) == Len(m) > 1

FirstSegment(m) == m[1]

\* solana_memo_string.split(':')[-1]
ExpectedHash(m) == m[Len(m)]

\* The digest in upper-case hexadecimal digits: a text that is no digest's
\* hexdigest() but names one.
HexUpper(h) == [hex |-> FALSE, lit |-> "HEX", canon |-> h.canon]

HashEqualsPrinted(h, seg) == FormatHash(h) = seg

\* current_hash == expected_hash: None equals no text.
HashEquals(h, seg) == h.ok /\ seg.hex /\ seg.canon = h.canon

MsgInvalidMemo == "Invalid Solana memo format"

MsgVerified == "VERIFIED: Receipt matches the blockchain record."

MsgNotVerified ==
  "NOT VERIFIED: Receipt data does not match the original certification."

verify_receipt_unchecked(current_scan_json, solana_memo_string) ==
  IF HashEquals(compute_canonical_hash(current_scan_json),
                ExpectedHash(solana_memo_string))
  THEN [verified |-> TRUE, message |-> MsgVerified]
  ELSE [verified |-> FALSE, message |-> MsgNotVerified]

verify_receipt(current_scan_json, solana_memo_string) ==
  LET current_hash == compute_canonical_hash(current_scan_json)
  IN IF ~HasColon(solana_memo_string)
     THEN [verified |-> FALSE, message |-> MsgInvalidMemo]
     ELSE IF HashEquals(current_hash, ExpectedHash(solana_memo_string))
     THEN [verified |-> TRUE, message |-> MsgVerified]
     ELSE [verified |-> FALSE, message |-> MsgNotVerified]

(***************************************************************************)
(* comparing_receipts.py: basic_validation                                 *)
(***************************************************************************)
IsLeap(y) == (y % 4 = 0 /\ y % 100 # 0) \/ y % 400 = 0

DaysInMonth(y, m) ==
  CASE m \in {4, 6, 9, 11} -> 30
    [] m = 2 -> IF IsLeap(y) THEN 29 ELSE 28
    [] OTHER -> 31

\* The parts of a text between its '-' characters.
RECURSIVE SplitDash(_)
SplitDash(t) ==
  LET dashes == { i \in 1..Len(t) : t[i] = "-" }
  IN IF dashes = {}
     THEN <<t>>
     ELSE LET i == CHOOSE j \in dashes : \A k \in dashes : j <= k
          IN <<SubSeq(t, 1, i - 1)>> \o SplitDash(SubSeq(t, i + 1, Len(t)))

\* %m and %d take one or two digits; %d also takes a space and a digit.
MonthPart(t) == Len(t) \in {1, 2} /\ AllDigits(t) /\ DigitsToNat(t) \in 1..12

DayPart(t) ==
  \/ Len(t) \in {1, 2} /\ AllDigits(t) /\ DigitsToNat(t) \in 1..31
  \/ Len(t) = 2 /\ t[1] = " " /\ t[2] \in Digits \ {"0"}

DayValue(t) == IF t[1] = " " THEN DigitVal(t[2]) ELSE DigitsToNat(t)

NoDate == [ok |-> FALSE, y |-> 0, m |-> 0, d |-> 0]

\* datetime.strptime(text, "%Y-%m-%d"): the whole text must match, and the
\* day must exist in the month; otherwise ValueError.
Strptime(t) ==
  LET parts == SplitDash(t)
  IN IF /\ Len(parts) = 3
        /\ Len(parts[1]) = 4 /\ AllDigits(parts[1]) /\ DigitsToNat(parts[1]) >= 1
        /\ MonthPart(parts[2])
        /\ DayPart(parts[3])
        /\ DayValue(parts[3]) <= DaysInMonth(DigitsToNat(parts[1]), DigitsToNat(parts[2]))
     THEN [ok |-> TRUE, y |-> DigitsToNat(parts[1]), m |-> DigitsToNat(parts[2]),
           d |-> DayValue(parts[3])]
     ELSE NoDate

\* receipt_date.date() > today.date()
DateAfter(a, b) ==
  \/ a.y > b.y
  \/ a.y = b.y /\ a.m > b.m
  \/ a.y = b.y /\ a.m = b.m /\ a.d > b.d

\* The ambient clock: datetime.today() on the day the clock stands at.
FirstDay == [y |-> 2026, m |-> 2, d |-> 7]

Today(c) == [FirstDay EXCEPT !.d = FirstDay.d + c]

Anomaly(kind, fields) == [kind |-> kind, fields |-> fields]

\* What one rule adds: the exception it raised ("none" when it completed),
\* its increment of fraud_score, the reasons and anomalies it appended.
Step(raised, score, reasons, anomalies) ==
  [raised |-> raised, score |-> score, reasons |-> reasons, anomalies |-> anomalies]

ScoreFutureDate == 40

ScoreInvalidDate == 20

ScoreArithmetic == 50

ScoreLineItems == 30

ScoreMissing == 20

\* Lines 114-126. strptime is handed receipt_data.get("date", ""): a value
\* that is not a text raises TypeError, which the except clause does not
\* catch.
DateRule(data, today) ==
  LET d == Get(data, "date", Txt(<<>>))
      parsed == Strptime(d.s)
  IN IF d.k # "str" THEN Step("TypeError", 0, <<>>, <<>>)
     ELSE IF ~parsed.ok
     THEN Step("none", ScoreInvalidDate, <<"Invalid date format">>,
               <<Anomaly("Invalid date format", <<>>)>>)
     ELSE IF DateAfter(parsed, today)
     THEN Step("none", ScoreFutureDate, <<"Receipt date is invalid (future date)">>,
               <<Anomaly("Receipt date is in the future", <<>>)>>)
     ELSE Step("none", 0, <<>>, <<>>)

\* abs(x) <= 0.02, in thousandths
Tolerance == 20

WithinTolerance(diff) == Abs(diff) <= Tolerance

\* Lines 129-138. The sum and the difference are defined on numbers only: a
\* None or a text among the three amounts raises TypeError.
ArithmeticOperands(data) ==
  [subtotal |-> Get(data, "subtotal", DefaultAmount),
   tax |-> Get(data, "tax", DefaultAmount),
   total |-> Get(data, "total", DefaultAmount)]

ArithmeticRaises(data) ==
  LET a == ArithmeticOperands(data)
  IN a.subtotal.k # "num" \/ a.tax.k # "num" \/ a.total.k # "num"

ArithmeticDiff(data) ==
  LET a == ArithmeticOperands(data)
  IN (a.subtotal.v + a.tax.v) - a.total.v

ArithmeticValid(data) == WithinTolerance(ArithmeticDiff(data))

ArithmeticRule(data) ==
  IF ArithmeticRaises(data) THEN Step("TypeError", 0, <<>>, <<>>)
  ELSE IF ~ArithmeticValid(data)
  THEN Step("none", ScoreArithmetic, <<"Math error">>, <<>>)
  ELSE Step("none", 0, <<"Arithmetic checks passed">>, <<>>)

\* Lines 140-148. receipt_data.get('line_items') is truthy for a non-empty
\* list only. item['quantity'] on an item without the key raises KeyError.
NoItems == [k |-> "absent", items |-> <<>>]

NullItems == [k |-> "null", items |-> <<>>]

ItemList(items) == [k |-> "list", items |-> items]

HasLineItems(data) == data.line_items.k = "list" /\ data.line_items.items # <<>>

RECURSIVE LineTotal(_)
LineTotal(items) ==
  IF items = <<>> THEN 0
  ELSE Head(items).quantity.v * Head(items).price.v + LineTotal(Tail(items))

\* What evaluating item['quantity'] * item['price'] raises for one item.
ItemRaises(item) ==
  IF item.quantity.k = "absent" \/ item.price.k = "absent" THEN "KeyError"
  ELSE IF item.quantity.k # "num" \/ item.price.k # "num" THEN "TypeError"
  ELSE "none"

\* sum(...) evaluates the items in order: the first failing item decides.
LineItemsRaise(data) ==
  LET items == data.line_items.items
      bad == { i \in 1..Len(items) : ItemRaises(items[i]) # "none" }
  IN IF bad = {} THEN "none"
     ELSE ItemRaises(items[CHOOSE i \in bad : \A j \in bad : i <= j])

LineItemsValidStrict(data) ==
  ~HasLineItems(data)
  \/ Abs(LineTotal(data.line_items.items)
         - Get(data, "subtotal", DefaultAmount).v) < Tolerance

LineItemsValid(data) ==
  ~HasLineItems(data)
  \/ WithinTolerance(LineTotal(data.line_items.items)
                     - Get(data, "subtotal", DefaultAmount).v)

LineItemsRule(data) ==
  IF ~HasLineItems(data) THEN Step("none", 0, <<>>, <<>>)
  ELSE IF LineItemsRaise(data) # "none" THEN Step(LineItemsRaise(data), 0, <<>>, <<>>)
  ELSE IF ~LineItemsValid(data)
  THEN Step("none", ScoreLineItems, <<"Line items sum differs from subtotal">>, <<>>)
  ELSE Step("none", 0, <<>>, <<>>)

\* Lines 150-156. "not receipt_data.get(f)" holds for an absent key, None,
\* the empty text and the number zero.
required_fields == <<"merchant", "date", "currency", "subtotal", "tax", "total">>

Falsy(x) ==
  CASE x.k = "absent" -> TRUE
    [] x.k = "null" -> TRUE
    [] x.k = "str" -> x.s = <<>>
    [] OTHER -> x.v = 0

Missing(data) ==
  LET IsMissing(f) == Falsy(data[f])
  IN SelectSeq(required_fields, IsMissing)

RequiredFieldsRule(data) ==
  IF Missing(data) # <<>>
  THEN Step("none", ScoreMissing, <<>>, <<Anomaly("Missing fields", Missing(data))>>)
  ELSE Step("none", 0, <<>>, <<>>)

\* Lines 158-164
LegitMax == 30

SuspiciousMax == 70

Verdict(fraud_score) ==
  IF fraud_score <= LegitMax THEN "Likely Legit"
  ELSE IF fraud_score <= SuspiciousMax THEN "Suspicious"
  ELSE "Highly Suspicious"

NoAssessment ==
  [state |-> "none", fraud_score |-> 0, verdict |-> "", reasons |-> <<>>,
   arithmetic_valid |-> FALSE, line_items_valid |-> FALSE, anomalies_found |-> <<>>]

\* The call ended in an exception that nothing in the function catches.
Aborted(exception) == [NoAssessment EXCEPT !.state = exception]

FinalScoreClamped(steps) ==
  LET total == steps[1].score + steps[2].score + steps[3].score + steps[4].score
  IN IF total > 100 THEN 100 ELSE total

FinalScore(steps) == steps[1].score + steps[2].score + steps[3].score + steps[4].score

basic_validation(receipt_data, today) ==
  LET steps == <<DateRule(receipt_data, today), ArithmeticRule(receipt_data),
                 LineItemsRule(receipt_data), RequiredFieldsRule(receipt_data)>>
      failed == { i \in 1..4 : steps[i].raised # "none" }
  IN IF failed # {}
     THEN Aborted(steps[CHOOSE i \in failed : \A j \in failed : i <= j].raised)
     ELSE [state |-> "returned",
           fraud_score |-> FinalScore(steps),
           verdict |-> Verdict(FinalScore(steps)),
           reasons |-> steps[1].reasons \o steps[2].reasons \o steps[3].reasons,
           arithmetic_valid |-> ArithmeticValid(receipt_data),
           line_items_valid |-> LineItemsValid(receipt_data),
           anomalies_found |-> steps[1].anomalies \o steps[4].anomalies]

\* Lines 86-104 with the AI call failing: the except clause returns
\* basic_validation(receipt_data), whose own exceptions leave the function.
analyze_receipt_with_gemini(receipt_data, today) == basic_validation(receipt_data, today)

(***************************************************************************)
(* integration.py: step 3 of test_receipt_integration                      *)
(***************************************************************************)
NoArith == [state |-> "none", arithmetic_valid |-> FALSE]

\* Lines 26-57: the flow returns before step 3 when no hash was produced;
\* a TypeError in step 3 is caught by the enclosing except clause, which
\* returns None; otherwise the verdict is difference < 0.02.
integration_arithmetic(receipt_data) ==
  IF ~compute_canonical_hash(receipt_data).ok
  THEN [state |-> "no hash", arithmetic_valid |-> FALSE]
  ELSE IF ArithmeticRaises(receipt_data)
  THEN [state |-> "error", arithmetic_valid |-> FALSE]
  ELSE [state |-> "done",
        arithmetic_valid |-> Abs(ArithmeticDiff(receipt_data)) < Tolerance]

(***************************************************************************)
(* comparing_receipts.py: SAMPLE_RECEIPTS and compare_to_certified         *)
(***************************************************************************)
Walmart == <<"W", "a", "l", "m", "a", "r", "t">>

Target == <<"T", "a", "r", "g", "e", "t">>

USD == <<"U", "S", "D">>

Date_0206 == <<"2", "0", "2", "6", "-", "0", "2", "-", "0", "6">>

Time_143022 == <<"1", "4", ":", "3", "0", ":", "2", "2">>

Time_101500 == <<"1", "0", ":", "1", "5", ":", "0", "0">>

NamedItem(item, quantity, price) ==
  [item |-> item, quantity |-> quantity, price |-> price]

CertifiedReceipt(merchant, date, time, currency, subtotal, tax, total, line_items) ==
  [merchant |-> merchant, date |-> date, time |-> time, currency |-> currency,
   subtotal |-> subtotal, tax |-> tax, total |-> total, line_items |-> line_items]

receipt_001 ==
  CertifiedReceipt(Txt(Walmart), Txt(<<"2", "0", "2", "6", "-", "0", "2", "-", "0", "7">>),
                   Txt(Time_143022), Txt(USD), Num(45990), Num(3680), Num(49670),
                   ItemList(<<NamedItem("Milk 2%", Num(2), Num(4990)),
                              NamedItem("Bread", Num(1), Num(3490)),
                              NamedItem("Eggs Dozen", Num(3), Num(11970))>>))

receipt_002 ==
  CertifiedReceipt(Txt(Target), Txt(Date_0206), Txt(Time_101500), Txt(USD),
                   Num(89500), Num(7160), Num(96660),
                   ItemList(<<NamedItem("Coffee Maker", Num(1), Num(49990)),
                              NamedItem("Coffee Beans", Num(2), Num(19980)),
                              NamedItem("Filters", Num(1), Num(8990))>>))

\* The module-level dictionary as it stands after import.
SampleReceiptsTable ==
  [id \in {"receipt_001", "receipt_002"} |->
     IF id = "receipt_001" THEN receipt_001 ELSE receipt_002]

\* dict.get(field): None for a key that is not there.
GetOrNone(data, field) == Get(data, field, Null)

MsgNotFound == "Receipt ID not found in certified database"

\* The text after the leading check mark.
MsgAllMatch == "All fields match certified receipt"

MsgDifference == "{field}: user has '{user_value}', certified has '{cert_value}'"

\* An entry of the returned list. A difference keeps the field and the two
\* values its text is formatted from.
Message(text) == [text |-> text, field |-> "", user |-> Null, certified |-> Null]

Difference(field, user_value, cert_value) ==
  [text |-> MsgDifference, field |-> field, user |-> user_value, certified |-> cert_value]

key_fields_untimed == <<"merchant", "date", "currency", "subtotal", "tax", "total">>

key_fields == <<"merchant", "date", "time", "currency", "subtotal", "tax", "total">>

\* The loop over the fields, appending one entry per field whose values differ.
RECURSIVE Differences(_, _, _)
Differences(input, certified, fields) ==
  IF fields = <<>> THEN <<>>
  ELSE LET field == Head(fields)
           user_value == GetOrNone(input, field)
           cert_value == GetOrNone(certified, field)
       IN (IF user_value # cert_value
           THEN <<Difference(field, user_value, cert_value)>>
           ELSE <<>>)
          \o Differences(input, certified, Tail(fields))

NoComparison == [called |-> FALSE, matches |-> FALSE, differences |-> <<>>]

compare_to_certified(table, input, id) ==
  IF id \notin DOMAIN table
  THEN [called |-> TRUE, matches |-> FALSE, differences |-> <<Message(MsgNotFound)>>]
  ELSE LET differences == Differences(input, table[id], key_fields)
           matches == Len(differences) = 0
       IN [called |-> TRUE, matches |-> matches,
           differences |-> IF matches THEN <<Message(MsgAllMatch)>> ELSE differences]

(***************************************************************************)
(* Inputs                                                                  *)
(***************************************************************************)
Receipt(merchant, date, currency, subtotal, tax, total, line_items) ==
  [merchant |-> merchant, date |-> date, currency |-> currency,
   subtotal |-> subtotal, tax |-> tax, total |-> total, line_items |-> line_items]

Date_0207 == <<"2", "0", "2", "6", "-", "0", "2", "-", "0", "7">>

Date_0208 == <<"2", "0", "2", "6", "-", "0", "2", "-", "0", "8">>

Date_0230 == <<"2", "0", "2", "6", "-", "0", "2", "-", "3", "0">>

\* Receipts presented to the hashing and verification flow.
HashMerchants ==
  { Absent, Null, Txt(<<"A", "b">>), Txt(<<"a", "B">>), Txt(<<" ", "a", "b">>),
    Txt(<<"a", "SIGMA">>), Txt(<<"a", "sigma">>) }

HashDates == { Absent, Txt(<<" ">> \o Date_0207) }

HashCurrencies ==
  { Absent, Txt(<<"c", "a", "d">>), Txt(<<"C", "A", "D">>), Txt(<<"U", "S", "D">>) }

HashSubtotals == { Absent, Num(5150) }

HashTaxes == { Num(600), Txt(<<"a">>) }

HashTotals ==
  { Absent, Null, Num(0), Num(5750), Num(5751), Num(5760),
    Txt(<<"5", ".", "7", "5">>), Txt(<<"n", "a">>) }

HashReceipts ==
  { Receipt(m, d, c, s, t, tot, NoItems) :
      m \in HashMerchants, d \in HashDates, c \in HashCurrencies,
      s \in HashSubtotals, t \in HashTaxes, tot \in HashTotals }

\* Two texts that differ in letter case only: the same letters, position by
\* position (the three sigmas are forms of one letter).
SameLetters(t, u) ==
  /\ Len(t) = Len(u)
  /\ \A i \in 1..Len(t) : UpperChar(t[i]) = UpperChar(u[i])

CaseVariants(x, pool) ==
  { y \in pool : y.k = "str" /\ x.k = "str" /\ y # x /\ SameLetters(x.s, y.s) }

\* Memos handed to verify_receipt by a caller: up to MaxSegments segments.
MaxSegments == 3

Segments(data) ==
  { Prefix, Lit("INVALID_FORMAT_NO_COLON"), Lit("None"), Lit(""),
    FormatHash(compute_canonical_hash(data)),
    HexUpper(compute_canonical_hash(data)) }

\* What stands before the last ':' of a memo: the usual prefix, a text, or the
\* receipt's hash itself.
EarlierSegments(data) ==
  { Prefix, Lit("None"), FormatHash(compute_canonical_hash(data)) }

RECURSIVE SeqsUpTo(_, _)
SeqsUpTo(S, n) ==
  IF n = 0 THEN {<<>>}
  ELSE LET shorter == SeqsUpTo(S, n - 1)
       IN shorter \cup { Append(q, x) : q \in shorter, x \in S }

Memos(data) ==
  { Append(q, x) : q \in SeqsUpTo(EarlierSegments(data), MaxSegments - 1),
                   x \in Segments(data) }

NoMemo == <<>>

UserInput(merchant, date, time, currency, subtotal, tax, total) ==
  [merchant |-> merchant, date |-> date, time |-> time, currency |-> currency,
   subtotal |-> subtotal, tax |-> tax, total |-> total]

\* The empty dictionary.
NoInput == UserInput(Absent, Absent, Absent, Absent, Absent, Absent, Absent)

NoResult == [verified |-> FALSE, message |-> ""]

(***************************************************************************)
(* The certification flow: a receipt is scanned, a memo is built from its  *)
(* hash, the receipt is altered or a memo is presented, and the receipt is *)
(* verified against the memo.                                              *)
(***************************************************************************)
\* No comparison against the certified table has been asked for.
NothingCompared ==
  /\ SAMPLE_RECEIPTS = SampleReceiptsTable
  /\ user_input = NoInput
  /\ receipt_id = ""
  /\ comparison = NoComparison

CertifiedVarsIdle == UNCHANGED <<SAMPLE_RECEIPTS, user_input, receipt_id, comparison>>

ScoreVarsIdle == UNCHANGED <<clock, assessment, previous, arith>> /\ CertifiedVarsIdle

Init ==
  /\ receipt \in HashReceipts
  /\ memo = NoMemo
  /\ original = receipt
  /\ anchored = FALSE
  /\ result = NoResult
  /\ clock = 0
  /\ assessment = NoAssessment
  /\ previous = NoAssessment
  /\ arith = NoArith
  /\ NothingCompared

\* integration.py 169-174: the memo is built from the receipt's hash.
Certify ==
  /\ memo = NoMemo
  /\ memo' = BuildMemo(compute_canonical_hash(receipt))
  /\ original' = receipt
  /\ anchored' = TRUE
  /\ result' = NoResult
  /\ UNCHANGED receipt
  /\ ScoreVarsIdle

\* integration.py 190-191: the total is changed after certification.
TamperTotal ==
  /\ anchored /\ receipt = original
  /\ \E v \in HashTotals \ {receipt.total} :
       receipt' = [receipt EXCEPT !.total = v]
  /\ result' = NoResult
  /\ UNCHANGED <<memo, original, anchored>>
  /\ ScoreVarsIdle

\* hashing.py 75-82: the same receipt with merchant or currency in another
\* letter case.
Recase ==
  /\ anchored /\ receipt.total = original.total
  /\ \/ \E m \in CaseVariants(receipt.merchant, HashMerchants) :
          receipt' = [receipt EXCEPT !.merchant = m]
     \/ \E c \in CaseVariants(receipt.currency, HashCurrencies) :
          receipt' = [receipt EXCEPT !.currency = c]
  /\ result' = NoResult
  /\ UNCHANGED <<memo, original, anchored>>
  /\ ScoreVarsIdle

\* integration.py 5: a memo supplied by the caller.
PresentMemo ==
  /\ memo = NoMemo
  /\ \E m \in Memos(receipt) : memo' = m
  /\ result' = NoResult
  /\ UNCHANGED <<receipt, original, anchored>>
  /\ ScoreVarsIdle

\* integration.py 64-66, 181: verify_receipt(receipt_data, blockchain_memo)
Verify ==
  /\ memo # NoMemo
  /\ result = NoResult
  /\ result' = verify_receipt(receipt, memo)
  /\ UNCHANGED <<receipt, memo, original, anchored>>
  /\ ScoreVarsIdle

Next == Certify \/ TamperTotal \/ Recase \/ PresentMemo \/ Verify

Spec == Init /\ [][Next]_vars

(***************************************************************************)
(* The scoring flow: a receipt is assessed by the rule-based scorer,       *)
(* directly or as the fallback of the AI analysis, on the day the ambient  *)
(* clock stands at; the integration flow judges its arithmetic.            *)
(***************************************************************************)
MaxClock == 2

MaxItems == 2

Item(quantity, price) == [quantity |-> quantity, price |-> price]

ItemPool == { Item(Num(2), Num(500)), Item(Num(1), Absent), Item(Null, Num(500)) }

ScoreMerchants == { Absent, Txt(<<"a", "b">>) }

ScoreDates ==
  { Absent, Null, Txt(Date_0208), Txt(Date_0230), Txt(<<" ">> \o Date_0207) }

ScoreCurrencies == { Txt(<<>>), Txt(<<"C", "A", "D">>) }

ScoreSubtotals == { Absent, Null, Num(20), Num(1000), Num(1020) }

ScoreTaxes == { Num(0), Num(10) }

ScoreTotals == { Absent, Num(1000), Num(1030), Txt(<<"1", ".", "0", "0">>) }

ScoreItemLists == { NoItems, NullItems } \cup { ItemList(q) : q \in SeqsUpTo(ItemPool, MaxItems) }

ScoreReceipts ==
  { Receipt(m, d, c, s, t, tot, li) :
      m \in ScoreMerchants, d \in ScoreDates, c \in ScoreCurrencies,
      s \in ScoreSubtotals, t \in ScoreTaxes, tot \in ScoreTotals,
      li \in ScoreItemLists }

HashVarsIdle == UNCHANGED <<receipt, memo, original, anchored, result>> /\ CertifiedVarsIdle

ScoreInit ==
  /\ receipt \in ScoreReceipts
  /\ memo = NoMemo
  /\ original = receipt
  /\ anchored = FALSE
  /\ result = NoResult
  /\ clock = 0
  /\ assessment = NoAssessment
  /\ previous = NoAssessment
  /\ arith = NoArith
  /\ NothingCompared

\* A day passes on the ambient clock.
Tick ==
  /\ clock < MaxClock
  /\ clock' = clock + 1
  /\ UNCHANGED <<assessment, previous, arith>>
  /\ HashVarsIdle

\* A direct call of basic_validation(receipt_data).
Validate ==
  /\ assessment' = basic_validation(receipt, Today(clock))
  /\ previous' = assessment
  /\ UNCHANGED <<clock, arith>>
  /\ HashVarsIdle

\* analyze_receipt_with_gemini(receipt_data) with the AI call failing.
AnalyzeFallback ==
  /\ assessment' = analyze_receipt_with_gemini(receipt, Today(clock))
  /\ previous' = assessment
  /\ UNCHANGED <<clock, arith>>
  /\ HashVarsIdle

\* Step 3 of test_receipt_integration.
IntegrationStep ==
  /\ arith = NoArith
  /\ arith' = integration_arithmetic(receipt)
  /\ UNCHANGED <<clock, assessment, previous>>
  /\ HashVarsIdle

ScoreNext == Tick \/ Validate \/ AnalyzeFallback \/ IntegrationStep

ScoreSpec == ScoreInit /\ [][ScoreNext]_vars

(***************************************************************************)
(* The comparison flow: a user fills in the fields of a receipt and the    *)
(* input is compared to a certified receipt chosen by identifier.          *)
(***************************************************************************)
\* Values a user enters: those of either certified receipt, the same text in
\* another letter case, an amount one cent off, an amount typed as text, a
\* null and a field left out.
UserValues ==
  [merchant |-> {Txt(Walmart), Txt(Target), Txt(<<"w", "a", "l", "m", "a", "r", "t">>), Absent},
   date     |-> {Txt(Date_0207), Txt(Date_0206), Null},
   time     |-> {Txt(Time_143022), Txt(Time_101500), Absent},
   currency |-> {Txt(USD), Txt(<<"u", "s", "d">>)},
   subtotal |-> {Num(45990), Num(89500), Txt(<<"4", "5", ".", "9", "9">>)},
   tax      |-> {Num(3680), Num(7160), Num(3690)},
   total    |-> {Num(49670), Num(96660), Num(49680), Absent}]

UserInputs ==
  { UserInput(m, d, t, c, s, x, tot) :
      m \in UserValues.merchant, d \in UserValues.date, t \in UserValues.time,
      c \in UserValues.currency, s \in UserValues.subtotal, x \in UserValues.tax,
      tot \in UserValues.total }

ReceiptIds == {"receipt_001", "receipt_002", "receipt_003", "RECEIPT_001", ""}

OtherFlowsIdle ==
  UNCHANGED <<receipt, memo, original, anchored, result,
              clock, assessment, previous, arith>>

CertifiedInit ==
  /\ receipt = Receipt(Absent, Absent, Absent, Absent, Absent, Absent, NoItems)
  /\ memo = NoMemo
  /\ original = receipt
  /\ anchored = FALSE
  /\ result = NoResult
  /\ clock = 0
  /\ assessment = NoAssessment
  /\ previous = NoAssessment
  /\ arith = NoArith
  /\ SAMPLE_RECEIPTS = SampleReceiptsTable
  /\ user_input \in UserInputs
  /\ receipt_id = ""
  /\ comparison = NoComparison

\* The user changes one field of the input.
EditField ==
  /\ \E field \in DOMAIN UserValues : \E value \in UserValues[field] \ {user_input[field]} :
       user_input' = [user_input EXCEPT ![field] = value]
  /\ comparison' = NoComparison
  /\ UNCHANGED <<SAMPLE_RECEIPTS, receipt_id>>
  /\ OtherFlowsIdle

\* A call of compare_to_certified(user_input, receipt_id).
Compare ==
  /\ \E id \in ReceiptIds :
       /\ receipt_id' = id
       /\ comparison' = compare_to_certified(SAMPLE_RECEIPTS, user_input, id)
  /\ UNCHANGED <<SAMPLE_RECEIPTS, user_input>>
  /\ OtherFlowsIdle

CertifiedNext == EditField \/ Compare

CertifiedSpec == CertifiedInit /\ [][CertifiedNext]_vars

(***************************************************************************)
(* Properties of the certification flow                                    *)
(***************************************************************************)
Verified == result # NoResult

\* The receipt under verification is the one the memo was built from.
RoundTrip == anchored /\ receipt = original /\ Verified

OtherKeys == {"merchant", "date", "currency", "subtotal", "tax"}

NumericTotal(data) == Float(Get(data, "total", DefaultAmount))

\* The receipt equals the certified one except for its total, which holds a
\* different number.
TotalTampered ==
  /\ anchored
  /\ \A key \in OtherKeys : receipt[key] = original[key]
  /\ NumericTotal(receipt).ok /\ NumericTotal(original).ok
  /\ NumericTotal(receipt).v # NumericTotal(original).v

\* The receipt differs from the certified one in the letter case of merchant
\* and/or currency only.
CaseOnly(x, y) == x = y \/ (x.k = "str" /\ y.k = "str" /\ SameLetters(x.s, y.s))

Recased ==
  /\ anchored /\ receipt # original
  /\ \A key \in {"date", "subtotal", "tax", "total"} : receipt[key] = original[key]
  /\ CaseOnly(receipt.merchant, original.merchant)
  /\ CaseOnly(receipt.currency, original.currency)

\* Each amount of the receipt is absent, a number or a numeric text.
AmountsConvert(data) ==
  \A key \in AmountKeys :
    \/ data[key].k \in {"absent", "num"}
    \/ data[key].k = "str" /\ ParseFloat(data[key].s).ok

C2_AnyTotalChangeDetected == (TotalTampered /\ Verified) => ~result.verified

\* C2 amended: a change of the total after certification makes verification
\* fail whenever the new total differs from the certified one in its
\* two-decimal rendering; a change that rounds to the same two decimals (less
\* than a cent) leaves the hash unchanged and is verified like the original.
C2_RenderedTotalChangeDetected ==
  (TotalTampered /\ Verified) =>
    LET Cents(n) == (n + 5) \div 10
    IN IF Cents(NumericTotal(receipt).v) # Cents(NumericTotal(original).v)
       THEN ~result.verified /\ result.message = MsgNotVerified
       ELSE result.verified = AmountsConvert(receipt)

\* A certified total of 5.75 changed to 5.76 is rejected.
C2_Witness ==
  /\ TotalTampered /\ Verified /\ ~result.verified
  /\ original.total = Num(5750) /\ receipt.total = Num(5760)
  /\ AmountsConvert(receipt)

\* C3: receipts that differ only in the letter case of merchant and/or
\* currency have the same canonical hash.
C3_CaseInsensitiveHash ==
  Recased => compute_canonical_hash(receipt) = compute_canonical_hash(original)

\* C4: a memo without ':' is answered with verified = false and the
\* malformed-memo message, for every receipt.
C4_MalformedMemo ==
  (Verified /\ ~HasColon(memo)) =>
    result = [verified |-> FALSE, message |-> MsgInvalidMemo]

\* A memo without ':' was verified against a receipt whose hashing fails.
C4_Witness ==
  /\ Verified /\ ~HasColon(memo) /\ ~AmountsConvert(receipt)
  /\ result.message = MsgInvalidMemo

\* C5: verifying a receipt with an amount that is present and not a number
\* reports something other than the ordinary mismatch outcome.
C5_NormalizationErrorSurfaced ==
  (Verified /\ HasColon(memo) /\ ~AmountsConvert(receipt)) =>
    result # [verified |-> FALSE, message |-> MsgNotVerified]

(***************************************************************************)
(* Properties of the scoring flow                                          *)
(***************************************************************************)
Returned == assessment.state = "returned"

HasAnomaly(a, kind) == \E i \in 1..Len(a.anomalies_found) : a.anomalies_found[i].kind = kind

HasReason(a, reason) == \E i \in 1..Len(a.reasons) : a.reasons[i] = reason

\* C6: two assessments of the same receipt are equal, whatever the ambient
\* clock showed at each call.
C6_SameReceiptSameAssessment ==
  (assessment.state # "none" /\ previous.state # "none") => assessment = previous

\* C7: basic_validation, and with it the AI-fallback path, returns an
\* assessment for every receipt and never ends in an uncaught exception.
C7_AlwaysReturns == assessment.state \in {"none", "returned"}

\* C8: arithmetic is valid exactly when |subtotal + tax - total| <= 0.02,
\* the reasons say so, and the integration flow reaches the same verdict.
C8_ArithmeticAgrees ==
  Returned =>
    /\ assessment.arithmetic_valid = (Abs(ArithmeticDiff(receipt)) <= 20)
    /\ assessment.arithmetic_valid = HasReason(assessment, "Arithmetic checks passed")
    /\ ~assessment.arithmetic_valid = HasReason(assessment, "Math error")
    /\ arith.state # "none" =>
         arith.state = "done" /\ arith.arithmetic_valid = assessment.arithmetic_valid

\* A required field is missing when its key is absent or its value is None
\* or the empty text; a number, zero included, is present.
AbsentEmptyOrNull(x) == x.k \in {"absent", "null"} \/ (x.k = "str" /\ x.s = <<>>)

\* C9: the missing-fields anomaly is reported exactly when one of the six
\* required fields is absent, empty or null.
C9_MissingIffAbsent ==
  Returned =>
    HasAnomaly(assessment, "Missing fields")
      = (\E i \in 1..Len(required_fields) : AbsentEmptyOrNull(receipt[required_fields[i]]))

\* C10: the verdict is fixed by the final score alone (<= 30, 31..70, > 70);
\* the score is the unclamped sum of the weights of the rules that fired
\* (date 40 or 20, arithmetic 50, line items 30, missing fields 20) and is at
\* most 140.
C10_VerdictFromScore ==
  Returned =>
    LET a == assessment
        Weight(fired, w) == IF fired THEN w ELSE 0
    IN /\ a.fraud_score =
            Weight(HasAnomaly(a, "Receipt date is in the future"), 40)
          + Weight(HasAnomaly(a, "Invalid date format"), 20)
          + Weight(~a.arithmetic_valid, 50)
          + Weight(~a.line_items_valid, 30)
          + Weight(HasAnomaly(a, "Missing fields"), 20)
       /\ a.fraud_score <= 140
       /\ a.fraud_score <= 30 => a.verdict = "Likely Legit"
       /\ a.fraud_score \in 31..70 => a.verdict = "Suspicious"
       /\ a.fraud_score > 70 => a.verdict = "Highly Suspicious"

\* All four rules fired: the score is 140 and the verdict the highest.
C10_Witness ==
  Returned /\ assessment.fraud_score = 140 /\ assessment.verdict = "Highly Suspicious"

\* What the date rule added to the score of a returned assessment: the
\* score less the weights of the other rules the assessment shows fired.
DateGain(a) ==
  a.fraud_score
    - (IF a.arithmetic_valid THEN 0 ELSE 50)
    - (IF a.line_items_valid THEN 0 ELSE 30)
    - (IF HasAnomaly(a, "Missing fields") THEN 20 ELSE 0)

DateReasons == {"Invalid date format", "Receipt date is invalid (future date)"}

HasDateReason(a) == \E r \in DateReasons : HasReason(a, r)

\* The date text the rule reads (an absent date reads as the empty text) and
\* whether it parses.
DateText(data) == Get(data, "date", Txt(<<>>))

DateParses(data) == DateText(data).k = "str" /\ Strptime(DateText(data).s).ok

DateInFuture(data, today) ==
  DateParses(data) /\ DateAfter(Strptime(DateText(data).s), today)

\* The three outcomes of the date rule on a returned assessment.
DateUnparsed(a, data) ==
  /\ ~DateParses(data)
  /\ DateGain(a) = 20
  /\ HasAnomaly(a, "Invalid date format")
  /\ ~HasAnomaly(a, "Receipt date is in the future")

DateFuture(a, data, today) ==
  /\ DateInFuture(data, today)
  /\ DateGain(a) = 40
  /\ HasAnomaly(a, "Receipt date is in the future")
  /\ ~HasAnomaly(a, "Invalid date format")

DatePast(a, data, today) ==
  /\ DateParses(data) /\ ~DateInFuture(data, today)
  /\ DateGain(a) = 0
  /\ ~HasAnomaly(a, "Receipt date is in the future")
  /\ ~HasAnomaly(a, "Invalid date format")
  /\ ~HasDateReason(a)

OneDateOutcome(a, data, today) ==
  Cardinality({ i \in 1..3 :
                  \/ i = 1 /\ DateUnparsed(a, data)
                  \/ i = 2 /\ DateFuture(a, data, today)
                  \/ i = 3 /\ DatePast(a, data, today) }) = 1

\* The assessment at hand was made on one of the days the clock has shown.
DateOutcomeOnSomeDay ==
  \E day \in 0..clock : OneDateOutcome(assessment, receipt, Today(day))

\* The amounts and the line items of the receipt are such that the rules
\* after the date rule complete.
OtherRulesComplete(data) ==
  /\ \A key \in AmountKeys : data[key].k \in {"absent", "num"}
  /\ \A i \in 1..Len(data.line_items.items) :
       /\ data.line_items.items[i].quantity.k = "num"
       /\ data.line_items.items[i].price.k = "num"

\* C11: every call of basic_validation ends in exactly one of the three
\* outcomes of the date rule: unparseable date, an absent one included (+20,
\* invalid-format anomaly), future date (+40, future-date anomaly), or a
\* date on or before the reference date (nothing added). Stated for the
\* receipts on which no later rule can fail, so that the date rule alone
\* decides the outcome.
C11_ExactlyOneDateOutcome ==
  (assessment.state # "none" /\ OtherRulesComplete(receipt)) =>
    Returned /\ DateOutcomeOnSomeDay

\* The same for the calls that returned an assessment.
DateOutcomeWhenReturned == Returned => DateOutcomeOnSomeDay

LineReason == "Line items sum differs from subtotal"

ArithmeticReasons == {"Math error", "Arithmetic checks passed"}

\* What the line-item rule added to the score of a returned assessment: the
\* score less the weights of the other rules the assessment shows fired.
LineGain(a) ==
  a.fraud_score
    - (IF HasAnomaly(a, "Receipt date is in the future") THEN 40 ELSE 0)
    - (IF HasAnomaly(a, "Invalid date format") THEN 20 ELSE 0)
    - (IF a.arithmetic_valid THEN 0 ELSE 50)
    - (IF HasAnomaly(a, "Missing fields") THEN 20 ELSE 0)

LineReasonCount(a) == Cardinality({ i \in 1..Len(a.reasons) : a.reasons[i] = LineReason })

\* The receipt carries at least one line item.
NonEmptyItems(data) == data.line_items.k = "list" /\ Len(data.line_items.items) > 0

\* |sum(quantity * price) - subtotal|, an absent subtotal counting as 0.
LineItemsGap(data) == Abs(LineTotal(data.line_items.items) - data.subtotal.v)

\* C12: without line items the assessment has line_items_valid = true, no
\* line-item reason and no score from the rule; with line items
\* line_items_valid holds exactly when |sum(quantity * price) - subtotal| <=
\* 0.02, and a mismatch adds exactly 30 and exactly one reason, placed last,
\* directly after the arithmetic reason.
C12_LineItemRule ==
  Returned =>
    LET a == assessment
        n == Len(a.reasons)
    IN IF ~NonEmptyItems(receipt)
       THEN a.line_items_valid /\ LineGain(a) = 0 /\ LineReasonCount(a) = 0
       ELSE /\ a.line_items_valid = (LineItemsGap(receipt) <= 20)
            /\ a.line_items_valid => LineGain(a) = 0 /\ LineReasonCount(a) = 0
            /\ ~a.line_items_valid =>
                 /\ LineGain(a) = 30
                 /\ LineReasonCount(a) = 1
                 /\ n >= 2 /\ a.reasons[n] = LineReason
                 /\ a.reasons[n - 1] \in ArithmeticReasons

\* Line items summing to 1.00 against a subtotal of 0.02: the rule adds 30
\* and its reason follows the arithmetic reason.
C12_Witness ==
  /\ Returned /\ NonEmptyItems(receipt)
  /\ LineItemsGap(receipt) = 980
  /\ ~assessment.line_items_valid /\ LineGain(assessment) = 30
  /\ assessment.reasons[Len(assessment.reasons)] = LineReason

\* Line items within exactly 0.02 of the subtotal are accepted.
LineItemsAtTolerance ==
  Returned /\ NonEmptyItems(receipt) /\ LineItemsGap(receipt) = 20
  /\ assessment.line_items_valid

C13Fields == <<"merchant", "date", "time", "currency", "subtotal", "tax", "total">>

KnownIds == {"receipt_001", "receipt_002"}

\* The positions of C13Fields at which the user's value (None when left out)
\* is not the certified one.
DifferingFields ==
  { i \in 1..Len(C13Fields) :
      (IF user_input[C13Fields[i]].k = "absent" THEN Null ELSE user_input[C13Fields[i]])
        # SampleReceiptsTable[receipt_id][C13Fields[i]] }

\* The entries are one per differing field, in the order of C13Fields.
OneEntryPerDifference(differences) ==
  /\ Len(differences) = Cardinality(DifferingFields)
  /\ \A n \in 1..Len(differences) :
       /\ differences[n].text = MsgDifference
       /\ \E i \in DifferingFields :
            /\ differences[n].field = C13Fields[i]
            /\ Cardinality({ j \in DifferingFields : j < i }) = n - 1

\* C13: compare_to_certified never returns an empty list; an identifier that
\* is not in the certified table gives matches = false with the single entry
\* "Receipt ID not found in certified database"; a known identifier gives
\* matches = true with the single success entry exactly when all seven fields
\* equal the certified ones, and otherwise matches = false with one entry per
\* differing field in the fixed field order; the table is never changed.
C13_ComparisonResult ==
  /\ SAMPLE_RECEIPTS = SampleReceiptsTable
  /\ comparison.called =>
       /\ Len(comparison.differences) > 0
       /\ IF receipt_id \notin KnownIds
          THEN /\ ~comparison.matches
               /\ comparison.differences = <<Message(MsgNotFound)>>
          ELSE /\ comparison.matches <=> DifferingFields = {}
               /\ comparison.matches =>
                    comparison.differences = <<Message(MsgAllMatch)>>
               /\ ~comparison.matches => OneEntryPerDifference(comparison.differences)

\* A known receipt whose time and total alone differ: two entries, time first.
C13_Witness ==
  /\ comparison.called /\ receipt_id = "receipt_001"
  /\ ~comparison.matches
  /\ Len(comparison.differences) = 2
  /\ comparison.differences[1].field = "time"
  /\ comparison.differences[2].field = "total"

\* An input equal to the certified receipt in all seven fields.
AllFieldsMatch ==
  comparison.called /\ receipt_id \in KnownIds /\ comparison.matches

\* An identifier that is not in the table.
UnknownIdCompared ==
  comparison.called /\ receipt_id = "RECEIPT_001" /\ ~comparison.matches

\* The memo has a ':' and the text after its last ':' is the hexadecimal
\* digest of the record.
LastSegmentIsHash(data, m) ==
  /\ Len(m) >= 2
  /\ compute_canonical_hash(data).ok
  /\ m[Len(m)] = Hex(compute_canonical_hash(data))

\* The memo of the usual prefix and the last segment of m alone.
PlainMemo(m) == <<Prefix, m[Len(m)]>>

\* C14: verify_receipt answers verified = true exactly when the record's hash
\* was computed and equals, letter case included, the text after the last
\* ':' of the memo; the segments before the last ':' do not change the
\* answer, which is that of the prefix followed by the last segment alone; a
\* record whose hashing failed is never verified, whatever the memo, the
\* memos ending in "" or in "None" included.
C14_VerifiedIffLastSegment ==
  Verified =>
    /\ result.verified <=> LastSegmentIsHash(receipt, memo)
    /\ Len(memo) >= 2 =>
         verify_receipt(receipt, PlainMemo(memo)).verified = result.verified
    /\ ~AmountsConvert(receipt) => ~result.verified

\* A memo of three segments whose first is not the usual prefix and whose
\* last is the record's hash is verified.
C14_Witness ==
  /\ Verified /\ result.verified
  /\ Len(memo) = 3 /\ memo[1] # Prefix /\ memo[2] # Prefix

\* A record whose hashing failed, against a memo ending in "None".
FailedHashAgainstNone ==
  /\ Verified /\ ~AmountsConvert(receipt)
  /\ Len(memo) >= 2 /\ memo[Len(memo)] = Lit("None") /\ ~result.verified

\* A record whose hashing failed, against a memo ending in the empty text.
FailedHashAgainstEmpty ==
  /\ Verified /\ ~AmountsConvert(receipt)
  /\ Len(memo) >= 2 /\ memo[Len(memo)] = Lit("") /\ ~result.verified

\* The right digest in upper-case digits is not verified.
UpperCaseDigestRefused ==
  /\ Verified /\ AmountsConvert(receipt)
  /\ Len(memo) >= 2 /\ memo[Len(memo)] = HexUpper(compute_canonical_hash(receipt))
  /\ ~result.verified

====
